---- MODULE Spec2Model ----
(***************************************************************************)
(* Identity / profile synchronisation of the student-records backend.     *)
(*                                                                         *)
(* Two tables of one PostgreSQL database are kept in step: auth.users     *)
(* (the identities) and teacher_profiles (the profiles), with system_logs *)
(* as the audit table.  The database side is supabase_schema.sql          *)
(* (src/unnamed/part_000) and src/database_sync_triggers.sql; the backend *)
(* side (login verifier, request guard) is the Python of                  *)
(* src/unnamed/part_001.                                                   *)
(*                                                                         *)
(* A statement that raises an error aborts its transaction: the tables    *)
(* keep the value they had before the statement.  Transactions are        *)
(* modelled by a record tx = [u, p, lg, ok] that the statements thread    *)
(* through; an action commits tx when tx.ok and leaves the tables alone   *)
(* otherwise.                                                              *)
(***************************************************************************)
EXTENDS Integers, Sequences, FiniteSets, TLC

\* ------------------------------------------------------------------ bounds
MaxIds == 2
MaxCleanups == 1
MaxUpdates == 1

Ids == 1..MaxIds
Emails == {"a@x.com", "b@x.com"}
Names == {"Alice"}
Departments == {"CS"}
NULL == "NULL"
NoId == 0

\* ------------------------------------------------------------------- state
VARIABLES
  users,      \* auth.users: id -> [id, email, full_name (raw_user_meta_data)]
  profiles,   \* teacher_profiles: id -> [id, full_name, email, department]
  logs,       \* system_logs, in insertion order
  nextId,     \* the next uuid the identity provider hands out
  tokens,     \* access tokens issued so far (a token is named by its user id)
  lg,         \* the login request in progress (sign_in_with_profile_check)
  rq,         \* the protected request in progress (verify_user_profile)
  cj,         \* the cleanup_orphaned_auth_users() call in progress
  last,       \* the database operation of the latest step and its outcome
  badCred,    \* what the caller of the latest wrong-credential login saw
  client      \* the browser: localStorage, the AuthProvider state, its calls in flight

vars == <<users, profiles, logs, nextId, tokens, lg, rq, cj, last, badCred, client>>

\* ----------------------------------------------------------------- helpers
Remove(f, k) == [x \in DOMAIN f \ {k} |-> f[x]]

Put(f, k, v) == [x \in DOMAIN f \cup {k} |-> IF x = k THEN v ELSE f[x]]

NoRow == [id |-> NoId, full_name |-> NULL, email |-> NULL, department |-> NULL]

Tx == [u |-> users, p |-> profiles, lg |-> logs, ok |-> TRUE]

Raise(tx) == [tx EXCEPT !.ok = FALSE]

LogEntry(action, uid, kind, old, new, count, ids) ==
  [action |-> action, user_id |-> uid, kind |-> kind, old_data |-> old,
   new_data |-> new, count |-> count, ids |-> ids]

\* FROM auth.users au LEFT JOIN teacher_profiles tp ON au.id = tp.id: a row
\* per matching pair, and a row with a null tp for an au that matches none
LeftJoin(u, p) ==
  {r \in (DOMAIN u) \X ((DOMAIN p) \cup {NoId}) :
     IF r[2] = NoId THEN \A t \in DOMAIN p : t # r[1] ELSE r[1] = r[2]}

\* the same query with JOIN for LEFT JOIN
OrphanIds_InnerJoin(u, p) ==
  {r[1] : r \in {x \in {y \in LeftJoin(u, p) : y[2] # NoId} : x[2] = NoId}}

\* SELECT au.id ... WHERE tp.id IS NULL: the rows of the orphaned_auth_users
\* view, and the scan of cleanup_orphaned_auth_users
OrphanIds(u, p) == {r[1] : r \in {x \in LeftJoin(u, p) : x[2] = NoId}}

orphaned_auth_users == OrphanIds(users, profiles)

\* ------------------------------------------------------- database statements
\* the same statement as an upsert: ON CONFLICT (user_id) DO UPDATE
InsertSystemLog_OnConflictUpdate(tx, e) ==
  IF ~tx.ok THEN tx
  ELSE IF e.user_id # NoId /\ e.user_id \notin DOMAIN tx.u THEN Raise(tx)
  ELSE IF \E i \in DOMAIN tx.lg : tx.lg[i].user_id = e.user_id
    THEN [tx EXCEPT !.lg = [i \in DOMAIN @ |-> IF @[i].user_id = e.user_id THEN e ELSE @[i]]]
  ELSE [tx EXCEPT !.lg = Append(@, e)]

\* INSERT INTO system_logs: user_id REFERENCES auth.users(id)
InsertSystemLog(tx, e) ==
  IF ~tx.ok THEN tx
  ELSE IF e.user_id # NoId /\ e.user_id \notin DOMAIN tx.u THEN Raise(tx)
  ELSE [tx EXCEPT !.lg = Append(@, e)]

\* the same function without its ELSIF TG_OP = 'INSERT' branch
audit_profile_changes_NoInsertBranch(tx, op, old, new) ==
  IF op = "DELETE"
    THEN InsertSystemLog(tx, LogEntry("PROFILE_DELETED", old.id, "audit", old, NoRow, 0, {}))
  ELSE IF op = "UPDATE"
    THEN InsertSystemLog(tx, LogEntry("PROFILE_UPDATED", new.id, "audit", old, new, 0, {}))
  ELSE tx

\* trigger trg_audit_profile_changes, AFTER INSERT OR UPDATE OR DELETE
audit_profile_changes(tx, op, old, new) ==
  IF op = "DELETE"
    THEN InsertSystemLog(tx, LogEntry("PROFILE_DELETED", old.id, "audit", old, NoRow, 0, {}))
  ELSE IF op = "UPDATE"
    THEN InsertSystemLog(tx, LogEntry("PROFILE_UPDATED", new.id, "audit", old, new, 0, {}))
  ELSE InsertSystemLog(tx, LogEntry("PROFILE_CREATED", new.id, "audit", NoRow, new, 0, {}))

\* INSERT INTO teacher_profiles: primary key, foreign key to auth.users,
\* UNIQUE email, full_name NOT NULL; then the AFTER INSERT trigger
InsertTeacherProfile(tx, row) ==
  IF ~tx.ok THEN tx
  ELSE IF \/ row.id \in DOMAIN tx.p
          \/ row.id \notin DOMAIN tx.u
          \/ row.full_name = NULL
          \/ row.email = NULL
          \/ \E j \in DOMAIN tx.p : tx.p[j].email = row.email
    THEN Raise(tx)
  ELSE audit_profile_changes([tx EXCEPT !.p = Put(@, row.id, row)], "INSERT", NoRow, row)

\* UPDATE teacher_profiles SET department = d WHERE id = id, with the
\* AFTER UPDATE row trigger.  No row, no trigger.
UpdateTeacherProfile(tx, id, d) ==
  IF ~tx.ok \/ id \notin DOMAIN tx.p THEN tx
  ELSE LET old == tx.p[id]
           new == [old EXCEPT !.department = d]
       IN audit_profile_changes([tx EXCEPT !.p = Put(@, id, new)], "UPDATE", old, new)

\* the PROFILE_UPDATED rows of system_logs
ProfileUpdates(l) == Cardinality({i \in DOMAIN l : l[i].action = "PROFILE_UPDATED"})

\* jsonb_build_object('profile_id', OLD.id, 'full_name', OLD.full_name,
\* 'department', OLD.department, ...): the columns the hook's log row keeps;
\* the email is not among them
HookDetails(old) ==
  [id |-> old.id, full_name |-> old.full_name, email |-> NULL,
   department |-> old.department]

RECURSIVE DeleteFromAuthUsers(_, _)
RECURSIVE DeleteFromTeacherProfiles(_, _)

\* the same function without its DELETE FROM auth.users
delete_auth_user_on_profile_delete_LogOnly(tx, old) ==
  InsertSystemLog(tx, LogEntry("PROFILE_DELETED", old.id, "hook", HookDetails(old),
                               NoRow, 0, {}))

\* trigger trg_delete_auth_on_profile_delete, AFTER DELETE FOR EACH ROW:
\* no EXCEPTION block, so an error of either statement propagates
delete_auth_user_on_profile_delete(tx, old) ==
  DeleteFromAuthUsers(
    InsertSystemLog(tx, LogEntry("PROFILE_DELETED", old.id, "hook", HookDetails(old),
                                 NoRow, 0, {})),
    old.id)

\* the same statement had trg_audit_profile_changes been FOR EACH STATEMENT
DeleteFromTeacherProfiles_ForEachStatement(tx, id) ==
  IF ~tx.ok THEN tx
  ELSE IF id \notin DOMAIN tx.p
    THEN audit_profile_changes(tx, "DELETE", [NoRow EXCEPT !.id = id], NoRow)
  ELSE LET old == tx.p[id]
           t1 == [tx EXCEPT !.p = Remove(@, id)]
           t2 == audit_profile_changes(t1, "DELETE", old, NoRow)
       IN delete_auth_user_on_profile_delete(t2, old)

\* DELETE FROM teacher_profiles WHERE id = id.  The row triggers fire in
\* name order: trg_audit_profile_changes, trg_delete_auth_on_profile_delete.
\* No row, no trigger.
DeleteFromTeacherProfiles(tx, id) ==
  IF ~tx.ok \/ id \notin DOMAIN tx.p THEN tx
  ELSE LET old == tx.p[id]
           t1 == [tx EXCEPT !.p = Remove(@, id)]
           t2 == audit_profile_changes(t1, "DELETE", old, NoRow)
       IN delete_auth_user_on_profile_delete(t2, old)

\* the same statement had teacher_profiles.id no reference to auth.users
DeleteFromAuthUsers_NoReference(tx, id) ==
  IF ~tx.ok \/ id \notin DOMAIN tx.u THEN tx
  ELSE [tx EXCEPT !.u = Remove(@, id)]

\* the same statement had system_logs.user_id no reference to auth.users
DeleteFromAuthUsers_NoLogReference(tx, id) ==
  IF ~tx.ok \/ id \notin DOMAIN tx.u THEN tx
  ELSE DeleteFromTeacherProfiles([tx EXCEPT !.u = Remove(@, id)], id)

\* DELETE FROM auth.users WHERE id = id.  teacher_profiles.id is ON DELETE
\* CASCADE; system_logs.user_id has no delete action, so a remaining
\* system_logs row that references the user makes the statement fail.
DeleteFromAuthUsers(tx, id) ==
  IF ~tx.ok \/ id \notin DOMAIN tx.u THEN tx
  ELSE LET t1 == [tx EXCEPT !.u = Remove(@, id)]
           t2 == DeleteFromTeacherProfiles(t1, id)
       IN IF t2.ok /\ \E i \in DOMAIN t2.lg : t2.lg[i].user_id = id
            THEN Raise(t2)
            ELSE t2

\* the same INSERT without the COALESCE on raw_user_meta_data->>'full_name'
SignupInsert_EmailAsName(tx, new, boom) ==
  LET row == [id |-> new.id, full_name |-> new.email, email |-> new.email,
              department |-> NULL]
  IN IF boom THEN Raise(tx) ELSE InsertTeacherProfile(tx, row)

\* trigger on_auth_user_created, AFTER INSERT ON auth.users.  boom stands for
\* an error of the INSERT other than the constraints modelled above.
\* EXCEPTION WHEN OTHERS: the block's effects are undone, RETURN NEW.
SignupInsert(tx, new, boom) ==
  LET row == [id |-> new.id,
              full_name |-> IF new.full_name # NULL THEN new.full_name ELSE new.email,
              email |-> new.email,
              department |-> NULL]
  IN IF boom THEN Raise(tx) ELSE InsertTeacherProfile(tx, row)

\* the trigger function without its EXCEPTION block
create_teacher_profile_on_signup_NoHandler(tx, new, boom) ==
  SignupInsert(tx, new, boom)

create_teacher_profile_on_signup(tx, new, boom) ==
  LET t1 == SignupInsert(tx, new, boom)
  IN IF t1.ok THEN t1 ELSE tx

\* INSERT INTO auth.users, with its AFTER INSERT trigger
InsertAuthUser(tx, new, boom) ==
  create_teacher_profile_on_signup([tx EXCEPT !.u = Put(@, new.id, new)], new, boom)

\* the same had system_logs been written outside the transaction
Commit_LogOutsideTransaction(tx) ==
  /\ users' = IF tx.ok THEN tx.u ELSE users
  /\ profiles' = IF tx.ok THEN tx.p ELSE profiles
  /\ logs' = tx.lg

\* end of the statement's transaction: all of it, or on an error none of it
Commit(tx) ==
  /\ users' = IF tx.ok THEN tx.u ELSE users
  /\ profiles' = IF tx.ok THEN tx.p ELSE profiles
  /\ logs' = IF tx.ok THEN tx.lg ELSE logs

\* a cleanup call between its scan and its delete notes a concurrent write
\* and a write ends the calm that follows a cleanup run
Touch(wrote) ==
  cj' = IF ~wrote THEN cj
        ELSE [cj EXCEPT !.dirty = (cj.pc = "scanned"), !.calm = FALSE]

\* op: the statement; id: its row; ok: it committed; hadUser, hadProfile: the
\* row's identity and profile existed before it; hookFailed: the signup
\* trigger's INSERT raised; quiet: nothing was written between a cleanup's
\* scan and its delete; count: the deleted_count a cleanup returned; email:
\* the email of the auth.users row a statement inserted or deleted; again:
\* a signup used the email of the identity the statement before it removed,
\* or a profile delete followed a delete of the same profile; rows: the ids a
\* SELECT returned; wrote: the system_logs rows the statement inserted, kept
\* or rolled back
Last(op, id, ok, hadUser, hadProfile, hookFailed, quiet, count) ==
  [op |-> op, id |-> id, ok |-> ok, hadUser |-> hadUser, hadProfile |-> hadProfile,
   hookFailed |-> hookFailed, quiet |-> quiet, count |-> count,
   email |-> NULL, again |-> FALSE, rows |-> {}, wrote |-> << >>]

\* ------------------------------------------------------------ backend code
\* f"Sign in failed: {str(e)}"
SignInFailed(msg) == <<"Sign in failed: ", msg>>

\* what .select('*').eq('user_id', uid).single().execute() can come back with:
\* the row; no row, reported either as empty data ("if not profile.data") or
\* as the "No rows found" error that verify_user_profile tests for; or an
\* infrastructure error.  The backend calls the key column user_id; it is
\* teacher_profiles.id (database_sync_triggers.sql: "id = user_id").
LookupOutcomes(p, uid) ==
  IF uid \in DOMAIN p THEN {"row", "db_error"} ELSE {"empty", "no_rows", "db_error"}

LookupError(o) == IF o = "no_rows" THEN "No rows found" ELSE "Database unavailable"

\* the same without the "if not profile.data" test
AfterLookup_NoCheck(o) ==
  IF o \in {"row", "empty"} THEN "found" ELSE "raised"

\* sign_in_with_profile_check after the lookup: an exception leaves through
\* the outer except; "if not profile.data" takes the self-heal branch
AfterLookup(o) ==
  IF o = "row" THEN "found"
  ELSE IF o = "empty" THEN "orphan"
  ELSE "raised"

\* the same with the guard's 403 for a deleted profile
LoginFailure_Forbidden(l, msg) ==
  [l EXCEPT !.pc = "done",
            !.status = IF msg = "Invalid credentials" THEN 400 ELSE 403,
            !.detail = SignInFailed(msg), !.session = NoId]

\* login(): except Exception -> HTTPException(status_code=400, detail=str(e))
LoginFailure(l, msg) ==
  [l EXCEPT !.pc = "done", !.status = 400, !.detail = SignInFailed(msg), !.session = NoId]

\* the part of a finished login its caller sees
Visible(l) == [status |-> l.status, detail |-> l.detail, session |-> l.session]

NoFailure == [status |-> 0, detail |-> <<NULL, NULL>>, session |-> NoId]

\* str(e) of the exceptions verify_user_profile's lookup block can catch
ProfileDeletedHTTP == "403: Your profile has been deleted. Access denied."

\* the same without the test for "No rows found"
GuardOnException_AlwaysForbidden(msg) ==
  [status |-> 403, detail |-> "Your profile has been deleted. Access denied."]

\* verify_user_profile: except Exception as e
\*   if "No rows found" in str(e): 403, else 500 "Database error"
GuardOnException(msg) ==
  IF msg = "No rows found"
    THEN [status |-> 403, detail |-> "Your profile has been deleted. Access denied."]
    ELSE [status |-> 500, detail |-> "Database error"]

\* verify_user_profile: the try block around the profile lookup
GuardOnLookup(o) ==
  IF o = "row" THEN [status |-> 200, detail |-> "OK"]
  ELSE IF o = "empty" THEN GuardOnException(ProfileDeletedHTTP)
  ELSE GuardOnException(LookupError(o))

\* the same statement with WHERE id = v_deleted_ids[1]
DeleteAllFromAuthUsers_FirstOnly(tx, ids) ==
  IF ids = {} THEN tx
  ELSE DeleteFromAuthUsers(tx, CHOOSE x \in ids : TRUE)

RECURSIVE DeleteAllFromAuthUsers(_, _)
\* DELETE FROM auth.users WHERE id = ANY(ids), one statement
DeleteAllFromAuthUsers(tx, ids) ==
  IF ids = {} THEN tx
  ELSE LET i == CHOOSE x \in ids : TRUE
       IN DeleteAllFromAuthUsers(DeleteFromAuthUsers(tx, i), ids \ {i})

\* the same with the INSERT INTO system_logs inside IF v_count > 0
CleanupBody_LogWhenFound(tx, ids) ==
  LET v_count == Cardinality(ids)
      t1 == InsertSystemLog(tx, LogEntry("CLEANUP_ORPHANED_USERS", NoId, "cleanup",
                                         NoRow, NoRow, v_count, ids))
  IN IF v_count > 0 THEN DeleteAllFromAuthUsers(t1, ids) ELSE tx

\* the same with a DELETE FROM auth.users that has no WHERE and runs with
\* session_replication_role = replica (no triggers, no foreign-key checks)
CleanupBody_DeleteEveryUser(tx, ids) ==
  LET v_count == Cardinality(ids)
      t1 == InsertSystemLog(tx, LogEntry("CLEANUP_ORPHANED_USERS", NoId, "cleanup",
                                         NoRow, NoRow, v_count, ids))
  IN IF v_count > 0 THEN [t1 EXCEPT !.u = << >>] ELSE t1

\* the same with IF v_count > 1
CleanupBody_OffByOne(tx, ids) ==
  LET v_count == Cardinality(ids)
      t1 == InsertSystemLog(tx, LogEntry("CLEANUP_ORPHANED_USERS", NoId, "cleanup",
                                         NoRow, NoRow, v_count, ids))
  IN IF v_count > 1 THEN DeleteAllFromAuthUsers(t1, ids) ELSE t1

\* cleanup_orphaned_auth_users() after its scan returned v_deleted_ids
CleanupBody(tx, ids) ==
  LET v_count == Cardinality(ids)
      t1 == InsertSystemLog(tx, LogEntry("CLEANUP_ORPHANED_USERS", NoId, "cleanup",
                                         NoRow, NoRow, v_count, ids))
  IN IF v_count > 0 THEN DeleteAllFromAuthUsers(t1, ids) ELSE t1

NoOp == Last("none", NoId, TRUE, FALSE, FALSE, FALSE, FALSE, 0)

\* -------------------------------------------------------------------- Init
IdleLogin == [pc |-> "idle", uid |-> NoId, credOk |-> FALSE,
              lookup |-> "none", sawProfile |-> FALSE, status |-> 0,
              detail |-> <<NULL, NULL>>, session |-> NoId, full_name |-> NULL]

IdleRequest == [pc |-> "idle", header |-> "none",
                token |-> NoId, uid |-> NoId, afterDelete |-> FALSE,
                lookup |-> "none", sawProfile |-> FALSE, status |-> 0, detail |-> NULL]

\* ids: v_deleted_ids; dirty: a write fell between the scan and now; calm:
\* the previous run committed and nothing was written since its scan
IdleCleanup == [pc |-> "idle", ids |-> {}, dirty |-> FALSE, calm |-> FALSE]

\* the same component without its `if (loading)`
ProtectedRoute_NoLoadingCheck(loading, user) ==
  IF user = NULL THEN "Navigate /login" ELSE "children"

\* App.tsx ProtectedRoute: what it returns for the context's loading and user
ProtectedRoute(loading, user) ==
  IF loading THEN "Loading..."
  ELSE IF user = NULL THEN "Navigate /login"
  ELSE "children"

\* React renders the routes again after the context's state has changed
Render(c) == [c EXCEPT !.route = ProtectedRoute(c.loading, c.user)]

\* AuthProvider just mounted on a browser with empty localStorage:
\* useState(null), useState(true), useState(null); checkSession not yet run.
\* cs, si, so, ls: where checkSession, handleSignIn, handleSignOut and the
\* auth state listener stand; op, outcome, sent: the latest step, what its
\* request met, the token a sign-out sent
FreshClient ==
  Render([accessToken |-> NULL, refreshToken |-> NULL,
          user |-> NULL, loading |-> TRUE, error |-> NULL, route |-> NULL,
          cs |-> "start", si |-> "idle", so |-> "idle", ls |-> "idle",
          op |-> "mount", outcome |-> "none", sent |-> NULL])

Init ==
  /\ users = << >>
  /\ profiles = << >>
  /\ logs = << >>
  /\ nextId = 1
  /\ tokens = {}
  /\ lg = IdleLogin
  /\ rq = IdleRequest
  /\ cj = IdleCleanup
  /\ last = NoOp
  /\ badCred = NoFailure
  /\ client = FreshClient

\* ------------------------------------------------------------ the browser
\* what the backend's answers carry
AccessToken == "at"
RefreshToken == "rt"
SessionUser == "teacher"

\* the outcomes of a fetch(): a 2xx response, another response, a rejection
FetchOutcomes == {"ok", "not_ok", "throw"}

\* every field of the server's side of the model
server == <<users, profiles, logs, nextId, tokens, lg, rq, cj, last, badCred>>

\* localStorage.removeItem('accessToken'); localStorage.removeItem('refreshToken')
RemoveTokens(c) == [c EXCEPT !.accessToken = NULL, !.refreshToken = NULL]

\* the same without the catch block
signOut_NoCatch(c, o) ==
  IF o = "throw" THEN [c |-> c, threw |-> TRUE]
  ELSE [c |-> RemoveTokens(c), threw |-> FALSE]

\* api.signOut once its fetch has settled with o ("none": no token, no fetch):
\* the try block clears the storage, and so does the catch block
signOut(c, o) ==
  IF o = "throw" THEN [c |-> RemoveTokens(c), threw |-> FALSE]
  ELSE [c |-> RemoveTokens(c), threw |-> FALSE]

\* handleSignOut after `await apiSignOut()`: setUser(null), or the catch
\* block's setError and rethrow; finally setLoading(false)
AfterSignOut(r, o) ==
  IF r.threw
    THEN [r.c EXCEPT !.error = "An error occurred during sign out", !.loading = FALSE,
                     !.so = "idle", !.op = "signOutFailed", !.outcome = o]
    ELSE [r.c EXCEPT !.user = NULL, !.loading = FALSE,
                     !.so = "idle", !.op = "signOut", !.outcome = o]

\* handleSignOut up to the fetch of /auth/logout; without a stored token
\* signOut does not fetch and the whole call runs in this step
handleSignOut ==
  /\ client.so = "idle"
  /\ client.cs # "start"
  /\ LET c == [client EXCEPT !.loading = TRUE, !.error = NULL, !.sent = client.accessToken]
     IN client' = Render(IF client.accessToken = NULL
                    THEN AfterSignOut(signOut(c, "none"), "none")
                    ELSE [c EXCEPT !.so = "fetch", !.op = "handleSignOut", !.outcome = "none"])
  /\ UNCHANGED server

\* the fetch of /auth/logout settles; signOut does not look at the response
signOut_Settled ==
  \E o \in FetchOutcomes :
    /\ client.so = "fetch"
    /\ client' = Render(AfterSignOut(signOut(client, o), o))
    /\ UNCHANGED server

\* handleSignIn's catch block and finally
SignInFails(c, msg) ==
  [c EXCEPT !.error = msg, !.loading = FALSE, !.si = "idle",
            !.op = "signInFailed", !.outcome = msg]

\* handleSignIn up to the fetch of /auth/login (the effect that calls
\* checkSession runs before the page takes any input)
handleSignIn ==
  /\ client.si = "idle"
  /\ client.cs # "start"
  /\ client' = Render([client EXCEPT !.loading = TRUE, !.error = NULL, !.si = "fetch",
                              !.op = "handleSignIn", !.outcome = "none"])
  /\ UNCHANGED server

\* api.signIn: the fetch of /auth/login settles
signIn_Settled ==
  \E o \in FetchOutcomes :
    /\ client.si = "fetch"
    /\ client' = Render(IF o = "throw" THEN SignInFails(client, "Failed to fetch")
                 ELSE [client EXCEPT !.si = IF o = "ok" THEN "json" ELSE "error_json",
                                     !.op = "signIn", !.outcome = o])
    /\ UNCHANGED server

\* api.signIn: response.json() settles. An error body is thrown as its detail;
\* a session is stored, the refresh token only when present, and handleSignIn
\* sets the user when the body has one
signIn_Body ==
  \E parsed \in BOOLEAN, refresh \in BOOLEAN, hasUser \in BOOLEAN :
    /\ client.si \in {"json", "error_json"}
    /\ client' = Render(
         IF ~parsed THEN SignInFails(client, "Unexpected end of JSON input")
         ELSE IF client.si = "error_json" THEN SignInFails(client, "Sign in failed")
         ELSE [client EXCEPT !.accessToken = AccessToken,
                             !.refreshToken = IF refresh THEN RefreshToken ELSE @,
                             !.user = IF hasUser THEN SessionUser ELSE @,
                             !.loading = FALSE, !.si = "idle",
                             !.op = "signedIn", !.outcome = "ok"])
    /\ UNCHANGED server

\* the same without the two removeItem calls
getCurrentUser_Null_KeepTokens(c) == c

\* getCurrentUser, `if (!response.ok)` and `catch`: both tokens are removed
\* and null is returned
getCurrentUser_Null(c) == RemoveTokens(c)

\* checkSession's branches after getCurrentUser returned: setUser, setLoading(false)
SessionChecked(c, u, o) ==
  [c EXCEPT !.user = u, !.loading = FALSE, !.cs = "done",
            !.op = "checkSession", !.outcome = o]

\* useEffect: checkSession up to getCurrentUser's fetch of /auth/me; without
\* a stored token getCurrentUser returns null at once
checkSession ==
  /\ client.cs = "start"
  /\ client' = Render(IF client.accessToken = NULL
                 THEN SessionChecked(client, NULL, "no_token")
                 ELSE [client EXCEPT !.cs = "fetch", !.op = "getCurrentUser",
                                     !.outcome = "none"])
  /\ UNCHANGED server

\* getCurrentUser: the fetch of /auth/me settles; a response that is not ok
\* and a rejection both clear the storage and return null
getCurrentUser_Settled ==
  \E o \in FetchOutcomes :
    /\ client.cs = "fetch"
    /\ client' = Render(IF o = "ok"
                   THEN [client EXCEPT !.cs = "json", !.op = "getCurrentUser", !.outcome = o]
                   ELSE SessionChecked(getCurrentUser_Null(client), NULL, o))
    /\ UNCHANGED server

\* getCurrentUser: response.json() settles
getCurrentUser_Body ==
  \E parsed \in BOOLEAN :
    /\ client.cs = "json"
    /\ client' = Render(IF parsed THEN SessionChecked(client, SessionUser, "ok")
                 ELSE SessionChecked(getCurrentUser_Null(client), NULL, "throw"))
    /\ UNCHANGED server

\* supabase.auth.onAuthStateChange, subscribed once checkSession was called:
\* the callback is called with SIGNED_OUT, or with SIGNED_IN and a session,
\* and then calls getCurrentUser
onAuthStateChange ==
  \E event \in {"SIGNED_IN", "SIGNED_OUT"} :
    /\ client.ls = "idle"
    /\ client.cs # "start"
    /\ client' = Render(
         IF event = "SIGNED_OUT"
           THEN [client EXCEPT !.user = NULL, !.op = "SIGNED_OUT", !.outcome = "none"]
         ELSE IF client.accessToken = NULL
           THEN [client EXCEPT !.op = "SIGNED_IN", !.outcome = "no_token"]
         ELSE [client EXCEPT !.ls = "fetch", !.op = "SIGNED_IN", !.outcome = "none"])
    /\ UNCHANGED server

\* the callback's getCurrentUser: the fetch of /auth/me settles; on null the
\* callback sets nothing
onAuthStateChange_Settled ==
  \E o \in FetchOutcomes :
    /\ client.ls = "fetch"
    /\ client' = Render(
         IF o = "ok"
           THEN [client EXCEPT !.ls = "json", !.op = "SIGNED_IN", !.outcome = o]
           ELSE [getCurrentUser_Null(client) EXCEPT !.ls = "idle", !.op = "listener",
                                                    !.outcome = o])
    /\ UNCHANGED server

\* the callback's getCurrentUser: response.json() settles
onAuthStateChange_Body ==
  \E parsed \in BOOLEAN :
    /\ client.ls = "json"
    /\ client' = Render(
         IF parsed
           THEN [client EXCEPT !.user = SessionUser, !.ls = "idle", !.op = "listener",
                               !.outcome = "ok"]
           ELSE [getCurrentUser_Null(client) EXCEPT !.ls = "idle", !.op = "listener",
                                                    !.outcome = "throw"])
    /\ UNCHANGED server

\* the page is loaded again: localStorage stays, the AuthProvider starts anew
\* and the calls of the old page are gone
Reload ==
  /\ client.op # "mount"
  /\ client' = Render([FreshClient EXCEPT !.accessToken = client.accessToken,
                                   !.refreshToken = client.refreshToken])
  /\ UNCHANGED server

\* ----------------------------------------------------------------- actions
\* Registration: the identity provider inserts into auth.users (emails are
\* unique there), the trigger provisions the profile, a session is returned.
SignUp ==
  \E e \in Emails, n \in Names \cup {NULL}, boom \in BOOLEAN :
    /\ nextId <= MaxIds
    /\ \A i \in DOMAIN users : users[i].email # e
    /\ LET new == [id |-> nextId, email |-> e, full_name |-> n]
           tx == InsertAuthUser(Tx, new, boom)
       IN /\ Commit(tx)
          /\ last' = [Last("SignUp", nextId, tx.ok, FALSE, FALSE,
                           ~SignupInsert([Tx EXCEPT !.u = Put(@, nextId, new)], new, boom).ok,
                           FALSE, 0)
                        EXCEPT !.email = e,
                               !.again = last.op = "UserDelete" /\ last.ok /\ last.email = e]
    /\ nextId' = nextId + 1
    /\ tokens' = tokens \cup {nextId}
    /\ Touch(TRUE)
    /\ UNCHANGED <<lg, rq, badCred, client>>

\* Administrative INSERT INTO teacher_profiles (id, full_name, email, department)
ProfileCreate ==
  \E i \in Ids, n \in Names, e \in Emails, d \in Departments :
    LET row == [id |-> i, full_name |-> n, email |-> e, department |-> d]
        tx == InsertTeacherProfile(Tx, row)
    IN /\ Commit(tx)
       /\ last' = Last("ProfileCreate", i, tx.ok, i \in DOMAIN users, i \in DOMAIN profiles,
                       FALSE, FALSE, 0)
       /\ Touch(tx.ok)
       /\ UNCHANGED <<nextId, tokens, lg, rq, badCred, client>>

\* UPDATE teacher_profiles SET department = d WHERE id = i
ProfileUpdate ==
  \E i \in Ids, d \in Departments :
    /\ ProfileUpdates(logs) < MaxUpdates
    /\ LET tx == UpdateTeacherProfile(Tx, i, d)
       IN /\ Commit(tx)
          /\ last' = Last("ProfileUpdate", i, tx.ok, i \in DOMAIN users, i \in DOMAIN profiles,
                          FALSE, FALSE, 0)
          /\ Touch(tx.ok /\ i \in DOMAIN profiles)
    /\ UNCHANGED <<nextId, tokens, lg, rq, badCred, client>>

\* DELETE FROM teacher_profiles WHERE id = i
ProfileDelete ==
  \E i \in Ids :
    LET tx == DeleteFromTeacherProfiles(Tx, i)
    IN /\ Commit(tx)
       /\ last' = [Last("ProfileDelete", i, tx.ok, i \in DOMAIN users, i \in DOMAIN profiles,
                        FALSE, FALSE, 0)
                     EXCEPT !.again = last.op = "ProfileDelete" /\ last.id = i /\ last.hadProfile,
                            !.wrote = SubSeq(tx.lg, Len(logs) + 1, Len(tx.lg))]
       /\ Touch(tx.ok /\ i \in DOMAIN profiles)
       /\ UNCHANGED <<nextId, tokens, lg, rq, badCred, client>>

\* SELECT * FROM orphaned_auth_users
ViewSelect ==
  /\ last' = [Last("ViewSelect", NoId, TRUE, FALSE, FALSE, FALSE, FALSE, 0)
                EXCEPT !.rows = orphaned_auth_users]
  /\ UNCHANGED <<users, profiles, logs, nextId, tokens, lg, rq, cj, badCred, client>>

\* DELETE FROM auth.users WHERE id = i (an identity removed directly)
UserDelete ==
  \E i \in Ids :
    LET tx == DeleteFromAuthUsers(Tx, i)
    IN /\ Commit(tx)
       /\ last' = [Last("UserDelete", i, tx.ok, i \in DOMAIN users, i \in DOMAIN profiles,
                        FALSE, FALSE, 0)
                     EXCEPT !.email = IF i \in DOMAIN users THEN users[i].email ELSE NULL]
       /\ Touch(tx.ok /\ i \in DOMAIN users)
       /\ UNCHANGED <<nextId, tokens, lg, rq, badCred, client>>

\* sign_in_with_profile_check, first call: supabase.auth.sign_in_with_password.
\* The backend's handlers make blocking calls: one request runs at a time.
LoginVerify ==
  \E e \in Emails, pwOk \in BOOLEAN :
    /\ lg.pc \in {"idle", "done"}
    /\ rq.pc \in {"idle", "done"}
    /\ LET match == {i \in DOMAIN users : users[i].email = e}
       IN IF pwOk /\ match # {}
            THEN /\ lg' = [IdleLogin EXCEPT !.pc = "verified",
                                            !.uid = CHOOSE i \in match : TRUE,
                                            !.credOk = TRUE]
                 /\ UNCHANGED badCred
            ELSE LET l == LoginFailure(IdleLogin, "Invalid credentials")
                 IN /\ lg' = l
                    /\ badCred' = Visible(l)
    /\ rq' = IdleRequest
    /\ last' = NoOp
    /\ UNCHANGED <<users, profiles, logs, nextId, tokens, cj, client>>

\* sign_in_with_profile_check: the teacher_profiles lookup
LoginLookup ==
  \E o \in LookupOutcomes(profiles, lg.uid) :
    /\ lg.pc = "verified"
    /\ LET l == [lg EXCEPT !.lookup = o, !.sawProfile = lg.uid \in DOMAIN profiles]
       IN IF AfterLookup(o) = "found"
            THEN lg' = [l EXCEPT !.pc = "found",
                                 !.full_name = IF lg.uid \in DOMAIN profiles
                                                 THEN profiles[lg.uid].full_name
                                                 ELSE ""]
          ELSE IF AfterLookup(o) = "orphan"
            THEN lg' = [l EXCEPT !.pc = "orphan"]
          ELSE lg' = LoginFailure(l, LookupError(o))
    /\ last' = NoOp
    /\ UNCHANGED <<users, profiles, logs, nextId, tokens, rq, cj, badCred, client>>

\* sign_in_with_profile_check: if not profile.data -> delete_user, raise.
\* delete_user of an identity that is gone already raises as well.
LoginSelfHeal ==
  /\ lg.pc = "orphan"
  /\ LET tx == IF lg.uid \in DOMAIN users THEN DeleteFromAuthUsers(Tx, lg.uid) ELSE Raise(Tx)
         l == LoginFailure(lg, IF tx.ok
                                 THEN "User profile has been deleted. Please contact administrator."
                                 ELSE "Database error deleting user")
     IN /\ Commit(tx)
        /\ lg' = l
        /\ last' = Last("SelfHeal", lg.uid, tx.ok, lg.uid \in DOMAIN users,
                        lg.uid \in DOMAIN profiles, FALSE, FALSE, 0)
        /\ Touch(tx.ok)
  /\ UNCHANGED <<nextId, tokens, rq, badCred, client>>

\* sign_in_with_profile_check: return {"user": ..., "session": ...}
LoginReturn ==
  /\ lg.pc = "found"
  /\ lg' = [lg EXCEPT !.pc = "done", !.status = 200, !.detail = <<"OK", "OK">>,
                      !.session = lg.uid]
  /\ tokens' = tokens \cup {lg.uid}
  /\ last' = NoOp
  /\ UNCHANGED <<users, profiles, logs, nextId, rq, cj, badCred, client>>

\* the same with the guard's 403 for the status
Reject401_Forbidden(detail) ==
  [IdleRequest EXCEPT !.pc = "done", !.status = 403, !.detail = detail]

\* raise HTTPException(status_code=401, detail=...)
Reject401(detail) ==
  [IdleRequest EXCEPT !.pc = "done", !.status = 401, !.detail = detail]

\* verify_user_profile up to auth_service.get_user(token).  h is the form of
\* the Authorization header, t the token of a Bearer header; known says
\* whether get_user still resolves the token of an identity that was deleted
\* (the provider's answer is not in the source); h, t alone decide otherwise.
\* The backend's handlers make blocking calls: one request runs at a time.
GuardStart ==
  \E h \in {"none", "malformed", "basic", "bearer"}, t \in Ids, known \in BOOLEAN :
    /\ rq.pc \in {"idle", "done"}
    /\ lg.pc \in {"idle", "done"}
    /\ h # "bearer" => (t = 1 /\ known)
    /\ (t \notin tokens \/ t \in DOMAIN users) => known
    /\ LET r == IF h = "none" THEN Reject401("Authorization header missing")
                ELSE IF h = "malformed" THEN Reject401("Invalid authorization header format")
                ELSE IF h = "basic" THEN Reject401("Invalid authentication scheme")
                ELSE IF t \notin tokens \/ (t \notin DOMAIN users /\ ~known)
                  THEN [Reject401("Invalid or expired token") EXCEPT !.token = t]
                ELSE [IdleRequest EXCEPT !.pc = "resolved", !.token = t, !.uid = t,
                                         !.afterDelete = (/\ last.op = "ProfileDelete"
                                                          /\ last.hadProfile
                                                          /\ last.id = t)]
       IN rq' = [r EXCEPT !.header = h]
    /\ lg' = IdleLogin
    /\ last' = NoOp
    /\ UNCHANGED <<users, profiles, logs, nextId, tokens, cj, badCred, client>>

\* verify_user_profile: the teacher_profiles lookup and its except clause
GuardLookup ==
  \E o \in LookupOutcomes(profiles, rq.uid) :
    /\ rq.pc = "resolved"
    /\ LET r == GuardOnLookup(o)
       IN rq' = [rq EXCEPT !.pc = "done", !.lookup = o, !.sawProfile = rq.uid \in DOMAIN profiles,
                          !.status = r.status, !.detail = r.detail]
    /\ last' = NoOp
    /\ UNCHANGED <<users, profiles, logs, nextId, tokens, lg, cj, badCred, client>>

\* the CLEANUP_ORPHANED_USERS rows of system_logs, one per committed run
CleanupRuns(l) == Cardinality({i \in DOMAIN l : l[i].action = "CLEANUP_ORPHANED_USERS"})

\* cleanup_orphaned_auth_users: SELECT ARRAY_AGG(au.id) INTO v_deleted_ids
\* (MaxCleanups runs at any time, and one more right after a run with no write
\* in between)
CleanupScan ==
  /\ cj.pc = "idle"
  /\ \/ CleanupRuns(logs) < MaxCleanups
     \/ cj.calm /\ CleanupRuns(logs) = MaxCleanups
  /\ cj' = [pc |-> "scanned", ids |-> OrphanIds(users, profiles), dirty |-> FALSE,
            calm |-> cj.calm]
  /\ last' = NoOp
  /\ UNCHANGED <<users, profiles, logs, nextId, tokens, lg, rq, badCred, client>>

\* cleanup_orphaned_auth_users: the log INSERT, the DELETE and the RETURN
CleanupDelete ==
  /\ cj.pc = "scanned"
  /\ LET tx == CleanupBody(Tx, cj.ids)
     IN /\ Commit(tx)
        /\ last' = Last("Cleanup", NoId, tx.ok, FALSE, FALSE, FALSE, ~cj.dirty,
                        Cardinality(cj.ids))
        /\ cj' = [IdleCleanup EXCEPT !.calm = tx.ok /\ ~cj.dirty]
  /\ UNCHANGED <<nextId, tokens, lg, rq, badCred, client>>

Next ==
  \/ SignUp
  \/ ProfileCreate
  \/ ProfileUpdate
  \/ ProfileDelete
  \/ ViewSelect
  \/ UserDelete
  \/ LoginVerify
  \/ LoginLookup
  \/ LoginSelfHeal
  \/ LoginReturn
  \/ GuardStart
  \/ GuardLookup
  \/ CleanupScan
  \/ CleanupDelete
  \/ checkSession
  \/ getCurrentUser_Settled
  \/ getCurrentUser_Body
  \/ handleSignIn
  \/ signIn_Settled
  \/ signIn_Body
  \/ handleSignOut
  \/ signOut_Settled
  \/ onAuthStateChange
  \/ onAuthStateChange_Settled
  \/ onAuthStateChange_Body
  \/ Reload

Spec == Init /\ [][Next]_vars

\* the store and the reconciliation job, without backend requests
NextStore ==
  \/ SignUp
  \/ ProfileCreate
  \/ ProfileDelete
  \/ UserDelete
  \/ CleanupScan
  \/ CleanupDelete

SpecStore == Init /\ [][NextStore]_vars

\* logins against a store that is written to concurrently
NextLogin ==
  \/ SignUp
  \/ ProfileCreate
  \/ ProfileDelete
  \/ UserDelete
  \/ LoginVerify
  \/ LoginLookup
  \/ LoginSelfHeal
  \/ LoginReturn

SpecLogin == Init /\ [][NextLogin]_vars

\* protected requests against a store that is written to concurrently
NextGuard ==
  \/ SignUp
  \/ ProfileCreate
  \/ ProfileDelete
  \/ UserDelete
  \/ GuardStart
  \/ GuardLookup

SpecGuard == Init /\ [][NextGuard]_vars

\* every statement that writes to the store, profile updates included
NextAudit ==
  \/ SignUp
  \/ ProfileCreate
  \/ ProfileUpdate
  \/ ProfileDelete
  \/ UserDelete
  \/ CleanupScan
  \/ CleanupDelete

SpecAudit == Init /\ [][NextAudit]_vars

\* the statements that change the orphan set, and the diagnostic view
NextView ==
  \/ SignUp
  \/ ProfileCreate
  \/ ProfileDelete
  \/ UserDelete
  \/ ViewSelect

SpecView == Init /\ [][NextView]_vars

\* signup drift and its two repairs: logins and the reconciliation job
NextDrift ==
  \/ SignUp
  \/ ProfileCreate
  \/ LoginVerify
  \/ LoginLookup
  \/ LoginSelfHeal
  \/ LoginReturn
  \/ CleanupScan
  \/ CleanupDelete

SpecDrift == Init /\ [][NextDrift]_vars

\* the browser alone; every answer of the backend is possible
NextClient ==
  \/ checkSession
  \/ getCurrentUser_Settled
  \/ getCurrentUser_Body
  \/ handleSignIn
  \/ signIn_Settled
  \/ signIn_Body
  \/ handleSignOut
  \/ signOut_Settled
  \/ onAuthStateChange
  \/ onAuthStateChange_Settled
  \/ onAuthStateChange_Body
  \/ Reload

SpecClient == Init /\ [][NextClient]_vars

\* ================================================================== claims
\* a login that presented a correct credential and whose lookup reported
\* that the identity has no profile
LoginFoundNoProfile ==
  lg.pc = "done" /\ lg.credOk /\ lg.lookup \in {"empty", "no_rows"}

\* C1: every profile row has an identity with the same id, and an INSERT of
\* a profile whose id is not a live identity is rejected.
C1_ProfileHasIdentity ==
  /\ \A i \in DOMAIN profiles : i \in DOMAIN users /\ users[i].id = profiles[i].id
  /\ (last.op = "ProfileCreate" /\ ~last.hadUser)
       => (~last.ok /\ last.id \notin DOMAIN profiles)

C1_Witness ==
  /\ last.op = "ProfileCreate" /\ ~last.hadUser
  /\ profiles # << >>

C4_ProfileMissingIs403 ==
  (rq.pc = "done" /\ rq.lookup \in {"empty", "no_rows"}) => rq.status = 403

\* C5: after the deletion of an existing profile no identity with the
\* profile's id exists: the hook deleted it as part of the deletion.
C5_IdentityGoneAfterProfileDelete ==
  (last.op = "ProfileDelete" /\ last.hadProfile) => last.id \notin DOMAIN users

\* C6: the deletion of an existing profile always completes, the profile
\* row is removed also when the hook's identity deletion fails.
C6_ProfileDeleteCompletes ==
  (last.op = "ProfileDelete" /\ last.hadProfile)
    => (last.ok /\ last.id \notin DOMAIN profiles)

\* C7: a login with a correct credential for an identity without profile
\* fails, and the identity is gone when the login has returned.
C7_SelfHealOnLogin ==
  LoginFoundNoProfile => (lg.status # 200 /\ lg.uid \notin DOMAIN users)

C9_SignupSurvivesHookFailure ==
  (last.op = "SignUp" /\ last.hookFailed)
    => /\ last.ok
       /\ last.id \in DOMAIN users
       /\ last.id \notin DOMAIN profiles

C9_Witness == last.op = "SignUp" /\ last.hookFailed /\ last.id \in orphaned_auth_users

\* C10: after a cleanup run that completed with no write between its scan
\* and its delete, every identity has a profile.
C10_NoOrphansAfterCleanup ==
  (last.op = "Cleanup" /\ last.ok /\ last.quiet) => orphaned_auth_users = {}

C10_Witness ==
  last.op = "Cleanup" /\ last.ok /\ last.quiet /\ last.count > 0 /\ users # << >>


\* C11: when the reconciliation job runs again after a committed run, with
\* nothing written since that run's scan, the second run returns
\* deleted_count = 0 and removes no identity and no profile.
C11_SecondRunDeletesNothing ==
  [][(cj.pc = "scanned" /\ cj.calm /\ cj'.pc = "idle")
       => /\ last'.op = "Cleanup" /\ last'.ok /\ last'.count = 0
          /\ users' = users /\ profiles' = profiles]_vars

\* a second run has committed right after a run that removed an orphan
C11_Witness ==
  /\ last.op = "Cleanup" /\ last.ok /\ cj.calm
  /\ CleanupRuns(logs) = MaxCleanups + 1
  /\ Len(logs) >= 2
  /\ logs[Len(logs)].action = "CLEANUP_ORPHANED_USERS"
  /\ logs[Len(logs) - 1].action = "CLEANUP_ORPHANED_USERS"
  /\ logs[Len(logs) - 1].count > 0
  /\ users = << >>

\* C12: a reconciliation run during which a profile was created for one of
\* the scanned ids rechecks each id before deleting it: it skips the ids that
\* now have a profile, deletes the scanned ids that are still orphans, and
\* completes; no identity that has a profile at the delete is removed.
C12_RechecksBeforeDelete ==
  [][(cj.pc = "scanned" /\ cj'.pc = "idle" /\ cj.ids \cap DOMAIN profiles # {})
       => /\ last'.ok
          /\ DOMAIN users' = DOMAIN users \ (cj.ids \ DOMAIN profiles)
          /\ profiles' = profiles]_vars


\* the PROFILE_DELETED rows of system_logs for one profile id
ProfileDeletedEntries(l, id) ==
  {i \in DOMAIN l : l[i].action = "PROFILE_DELETED" /\ l[i].user_id = id}

\* C13: a DELETE on teacher_profiles for an id that has no profile row
\* appends no system_logs row and changes no identity, profile or token.
C13_DeleteOfAbsentProfileIsNoOp ==
  [][(last'.op = "ProfileDelete" /\ ~last'.hadProfile)
       => /\ last'.ok
          /\ UNCHANGED <<users, profiles, logs, tokens, nextId>>]_vars

\* a DELETE ran for an id that was issued and has no profile row
C13_Witness ==
  /\ last.op = "ProfileDelete" /\ ~last.hadProfile /\ last.ok
  /\ last.id < nextId
  /\ last.id \notin DOMAIN profiles
  /\ ProfileDeletedEntries(logs, last.id) = {}

\* C14: after a DELETE on an existing profile, system_logs holds exactly one
\* PROFILE_DELETED row for that profile id.
C14_OneDeletedEntry ==
  (last.op = "ProfileDelete" /\ last.hadProfile)
    => Cardinality(ProfileDeletedEntries(logs, last.id)) = 1


\* the actions of the rows system_logs holds
LoggedActions(l) == {l[i].action : i \in DOMAIN l}

\* C15: system_logs is append-only: every step of every operation leaves the
\* rows already logged in place and in order, and at most adds rows after them.
C15_LogAppendOnly ==
  [][/\ Len(logs') >= Len(logs)
     /\ SubSeq(logs', 1, Len(logs)) = logs]_vars

\* the log has grown by a creation, an update and a cleanup summary, and a
\* refused profile delete has just left it as it was
C15_Witness ==
  /\ {"PROFILE_CREATED", "PROFILE_UPDATED", "CLEANUP_ORPHANED_USERS"} \subseteq LoggedActions(logs)
  /\ last.op = "ProfileDelete" /\ last.hadProfile /\ ~last.ok


\* the ids that were issued to an identity and whose identity is gone
RemovedIds == {i \in 1..(nextId - 1) : i \notin DOMAIN users}

\* C16: an id whose identity was removed is never again the id of an
\* identity or of a profile, and every new signup, one that reuses the email
\* of a removed identity included, gets an id that was never issued before.
C16_RemovedIdNeverReturns ==
  [][/\ \A i \in RemovedIds : i \notin DOMAIN users' /\ i \notin DOMAIN profiles'
     /\ \A i \in DOMAIN users' \ DOMAIN users : i >= nextId]_vars

\* an identity was removed and the next statement signed its email up again
C16_Witness ==
  /\ last.op = "SignUp" /\ last.ok /\ last.again
  /\ last.id \in DOMAIN users
  /\ users[last.id].email = last.email
  /\ RemovedIds # {}
  /\ \A i \in RemovedIds : i < last.id


\* C17: with the triggers installed, every reachable state has as many
\* auth.users rows as teacher_profiles rows and an empty orphaned_auth_users.
C17_CountsEqual ==
  /\ Cardinality(DOMAIN users) = Cardinality(DOMAIN profiles)
  /\ orphaned_auth_users = {}

\* C18: a signup whose profile insert failed leaves an identity without a
\* profile that the orphaned_auth_users view lists; a login for an identity
\* that has no profile at the lookup fails and returns no session; and a
\* reconciliation run with no concurrent write leaves the view empty.
C18_FailedSignupDrift ==
  /\ (last.op = "SignUp" /\ last.hookFailed)
       => /\ last.ok
          /\ last.id \in DOMAIN users
          /\ last.id \notin DOMAIN profiles
          /\ last.id \in orphaned_auth_users
  /\ (lg.pc = "done" /\ lg.credOk /\ ~lg.sawProfile)
       => lg.status # 200 /\ lg.session = NoId
  /\ (last.op = "Cleanup" /\ last.quiet)
       => last.ok /\ orphaned_auth_users = {}

\* a login for an orphan failed without removing it, and the reconciliation
\* run that followed removed it
C18_Witness ==
  /\ lg.pc = "done" /\ lg.credOk /\ ~lg.sawProfile
  /\ lg.lookup = "no_rows"
  /\ lg.status = 400
  /\ last.op = "Cleanup" /\ last.ok /\ last.quiet /\ last.count > 0
  /\ lg.uid \notin DOMAIN users
  /\ orphaned_auth_users = {}


\* the profile of id was inserted by the signup trigger, which sets no
\* department (an administrative INSERT gives one)
CreatedBySignup(l, id) ==
  \E i \in DOMAIN l : /\ l[i].action = "PROFILE_CREATED"
                       /\ l[i].user_id = id
                       /\ l[i].new_data.department = NULL

C20_DeleteAllOrNothing ==
  /\ \A i \in DOMAIN logs :
       logs[i].action = "PROFILE_DELETED" => logs[i].user_id \notin DOMAIN profiles
  /\ \A i \in DOMAIN logs :
       (logs[i].action = "PROFILE_CREATED" /\ logs[i].user_id \notin DOMAIN profiles)
         => ProfileDeletedEntries(logs, logs[i].user_id) # {}

\* a delete of an existing profile was refused: the row is there and the log
\* has no PROFILE_DELETED row for it
C20_Witness ==
  /\ last.op = "ProfileDelete" /\ last.hadProfile /\ ~last.ok
  /\ last.id \in DOMAIN profiles
  /\ ProfileDeletedEntries(logs, last.id) = {}
  /\ \E i \in DOMAIN logs : logs[i].action = "PROFILE_CREATED" /\ logs[i].user_id = last.id


\* C21: in every state the orphaned_auth_users view holds exactly the ids of
\* auth.users that are not ids of teacher_profiles; a SELECT on it returns
\* that set and changes no identity, profile or log row.
C21_ViewIsSetDifference ==
  /\ [](orphaned_auth_users = DOMAIN users \ DOMAIN profiles)
  /\ [](last.op = "ViewSelect" => last.rows = DOMAIN users \ DOMAIN profiles)
  /\ [][last'.op = "ViewSelect" => UNCHANGED <<users, profiles, logs>>]_vars

\* the view was read while it listed one identity and left out a synced one
C21_Witness ==
  /\ last.op = "ViewSelect"
  /\ last.rows # {}
  /\ last.rows # DOMAIN users
  /\ logs # << >>


\* C22: a step appends a PROFILE_CREATED row for an id exactly when it
\* inserts the profile row of that id, and the row logs the inserted profile;
\* a signup whose profile insert failed appends nothing.
C22_CreatedEntryIffInserted ==
  [][/\ \A id \in Ids :
          (\E k \in (Len(logs) + 1)..Len(logs') :
              /\ logs'[k].action = "PROFILE_CREATED"
              /\ logs'[k].user_id = id)
            <=> (id \in DOMAIN profiles' /\ id \notin DOMAIN profiles)
     /\ \A k \in (Len(logs) + 1)..Len(logs') :
          logs'[k].action = "PROFILE_CREATED"
            => logs'[k].new_data = profiles'[logs'[k].user_id]
     /\ (last'.op = "SignUp" /\ last'.hookFailed) => logs' = logs]_vars

\* a signup's profile insert has just failed and left no PROFILE_CREATED row
\* for it, next to an account whose insert succeeded and was logged
C22_Witness ==
  /\ last.op = "SignUp" /\ last.ok /\ last.hookFailed
  /\ \A k \in DOMAIN logs : logs[k].user_id # last.id
  /\ \E k \in DOMAIN logs : /\ logs[k].action = "PROFILE_CREATED"
                            /\ logs[k].user_id \in DOMAIN profiles

\* C23: the profile the signup trigger inserts has the id and the email of
\* the new identity, and as full_name the name of the signup metadata when
\* there is one and the identity's email when there is none.
C23_HookProfileFields ==
  (last.op = "SignUp" /\ last.ok /\ ~last.hookFailed)
    => /\ last.id \in DOMAIN users /\ last.id \in DOMAIN profiles
       /\ profiles[last.id].id = last.id
       /\ profiles[last.id].email = users[last.id].email
       /\ profiles[last.id].full_name = IF users[last.id].full_name # NULL
                                          THEN users[last.id].full_name
                                          ELSE users[last.id].email

\* a signup without a name got its email as full_name, after a signup with a
\* name got that name
C23_Witness ==
  /\ last.op = "SignUp" /\ last.ok /\ ~last.hookFailed
  /\ users[last.id].full_name = NULL
  /\ profiles[last.id].full_name = users[last.id].email
  /\ \E i \in DOMAIN profiles : i # last.id /\ profiles[i].full_name \in Names


\* C24: the PROFILE_DELETED row that delete_auth_user_on_profile_delete
\* inserts when a profile is deleted carries the whole row as it was before
\* the delete.
C24_HookSnapshotIsFullRow ==
  (last.op = "ProfileDelete" /\ last.hadProfile)
    => \E k \in DOMAIN last.wrote :
         /\ last.wrote[k].action = "PROFILE_DELETED"
         /\ last.wrote[k].kind = "hook"
         /\ last.wrote[k].user_id = last.id
         /\ last.id \in DOMAIN profiles => last.wrote[k].old_data = profiles[last.id]


\* C25: a reconciliation run that completes appends exactly one row to
\* system_logs, a CLEANUP_ORPHANED_USERS row, also when its scan found
\* nothing; the row's count is the number of ids it lists, the ids are the
\* ones the run's scan returned, and the run returns that count.
C25_OneSummaryPerRun ==
  [][(cj.pc = "scanned" /\ cj'.pc = "idle" /\ last'.ok)
       => /\ Len(logs') = Len(logs) + 1
          /\ SubSeq(logs', 1, Len(logs)) = logs
          /\ logs'[Len(logs')].action = "CLEANUP_ORPHANED_USERS"
          /\ logs'[Len(logs')].ids = cj.ids
          /\ logs'[Len(logs')].count = Cardinality(logs'[Len(logs')].ids)
          /\ last'.count = logs'[Len(logs')].count]_vars

\* a run that found nothing among existing accounts has logged its summary,
\* after a run that listed an orphan
C25_Witness ==
  /\ last.op = "Cleanup" /\ last.ok /\ last.count = 0
  /\ users # << >>
  /\ logs[Len(logs)].action = "CLEANUP_ORPHANED_USERS"
  /\ logs[Len(logs)].ids = {}
  /\ \E k \in DOMAIN logs : logs[k].action = "CLEANUP_ORPHANED_USERS" /\ logs[k].ids # {}


\* the lifecycle state of the account with id i in the store (u, p) when n is
\* the next id to be issued
Lifecycle(u, p, n, i) ==
  IF i \in DOMAIN u THEN (IF i \in DOMAIN p THEN "SYNCED" ELSE "IDENTITY_ONLY")
  ELSE IF i \in DOMAIN p THEN "PROFILE_ONLY"
  ELSE IF i < n THEN "REMOVED"
  ELSE "NONE"

LifecycleEdges ==
  {<<"NONE", "IDENTITY_ONLY">>, <<"IDENTITY_ONLY", "SYNCED">>,
   <<"SYNCED", "REMOVED">>, <<"IDENTITY_ONLY", "REMOVED">>}

C27_SecondDeleteIsNoOp ==
  (last.op = "ProfileDelete" /\ last.again)
    => /\ last.ok
       /\ ~last.hadProfile
       /\ last.id \notin DOMAIN profiles
       /\ last.id \notin DOMAIN users


\* C28: a request with no Authorization header, with a header that is not
\* "Bearer <token>", or with a token that resolves to no user is answered 401
\* and never gets to the profile lookup or to the handler.
C28_Unauthenticated401 ==
  /\ (rq.pc = "done" /\ (rq.header # "bearer" \/ rq.token \notin tokens \/ rq.uid = NoId))
       => rq.status = 401 /\ rq.lookup = "none"
  /\ rq.pc = "resolved"
       => rq.header = "bearer" /\ rq.token \in tokens /\ rq.uid = rq.token

\* a Bearer token that was never issued was rejected while its id belongs to
\* an account with a profile
C28_Witness ==
  /\ rq.pc = "done" /\ rq.header = "bearer"
  /\ rq.token \notin tokens
  /\ rq.status = 401 /\ rq.detail = "Invalid or expired token"
  /\ profiles # << >>

\* C29: when the guard's profile lookup fails with an infrastructure error
\* the request ends with 500, after that one lookup, and the step changes no
\* identity, profile or log row.
C29_LookupErrorIs500 ==
  /\ []((rq.pc = "done" /\ rq.lookup = "db_error")
          => rq.status = 500 /\ rq.detail = "Database error")
  /\ [][(rq.pc = "resolved" /\ rq'.lookup = "db_error")
          => rq'.pc = "done" /\ UNCHANGED <<users, profiles, logs, tokens>>]_vars

\* the lookup for an account whose profile exists failed and the request
\* ended with 500
C29_Witness ==
  /\ rq.pc = "done" /\ rq.lookup = "db_error" /\ rq.sawProfile
  /\ rq.status = 500
  /\ rq.uid \in DOMAIN profiles


\* C30: whatever the logout request does (a response, an error response, a
\* rejected fetch, or no request at all), the client's sign-out ends with no
\* accessToken and no refreshToken in localStorage and with user null, and it
\* never ends in handleSignOut's error branch.
C30_SignOutClears ==
  /\ client.op = "signOut"
       => (client.accessToken = NULL /\ client.refreshToken = NULL /\ client.user = NULL)
  /\ client.op # "signOutFailed"

\* a signed-in user signed out and the logout request threw
C30_Witness ==
  /\ client.op = "signOut" /\ client.outcome = "throw"
  /\ client.sent = AccessToken
  /\ client.accessToken = NULL /\ client.user = NULL


\* C31: a DELETE of an auth.users row whose profile exists commits, removes
\* the profile with it through the cascade and leaves a PROFILE_DELETED row;
\* and no profile is ever without its identity.
C31_DirectDeleteCascades ==
  /\ (last.op = "UserDelete" /\ last.hadUser /\ last.hadProfile)
       => /\ last.ok
          /\ last.id \notin DOMAIN users
          /\ last.id \notin DOMAIN profiles
          /\ ProfileDeletedEntries(logs, last.id) # {}
  /\ \A i \in DOMAIN profiles : i \in DOMAIN users

\* the ids that system_logs rows refer to
LoggedUserIds(l) == {l[i].user_id : i \in DOMAIN l} \ {NoId}

C33_CleanupFrame ==
  [][(cj.pc = "scanned" /\ cj'.pc = "idle" /\ ~cj.dirty)
       => /\ profiles' = profiles
          /\ \A i \in DOMAIN profiles : i \in DOMAIN users' /\ users'[i] = users[i]
          /\ (DOMAIN users \ DOMAIN users') \subseteq (cj.ids \ DOMAIN profiles)
          /\ \A i \in DOMAIN users' : i \in DOMAIN users /\ users'[i] = users[i]]_vars

\* a run with no concurrent write removed an orphan and kept an account
\* that has a profile
C33_Witness ==
  /\ last.op = "Cleanup" /\ last.ok /\ last.quiet /\ last.count > 0
  /\ profiles # << >>
  /\ DOMAIN users = DOMAIN profiles
  /\ logs[Len(logs)].action = "CLEANUP_ORPHANED_USERS"
  /\ logs[Len(logs)].ids \cap DOMAIN users = {}


\* C34: the deleted_count that a completed reconciliation run returns and
\* logs is the number of identities the run removed, whatever was written
\* between its scan and its delete.
C34_CountIsRemoved ==
  [][(cj.pc = "scanned" /\ cj'.pc = "idle" /\ last'.ok)
       => /\ last'.count = Cardinality(DOMAIN users \ DOMAIN users')
          /\ logs'[Len(logs')].count = Cardinality(DOMAIN users \ DOMAIN users')]_vars


\* C35: the delete that a login issues for an identity it found without a
\* profile removes nothing when the identity has a profile at that moment,
\* also when the profile was created after the login's lookup.
C35_SelfHealSparesProfiles ==
  (last.op = "SelfHeal" /\ last.hadProfile)
    => /\ ~last.ok
       /\ last.id \in DOMAIN users
       /\ last.id \in DOMAIN profiles

\* a profile was created between a login's lookup and its delete, and the
\* delete was refused
C35_Witness ==
  /\ last.op = "SelfHeal" /\ last.hadUser /\ last.hadProfile
  /\ lg.pc = "done" /\ lg.credOk /\ ~lg.sawProfile
  /\ lg.uid = last.id
  /\ last.id \in DOMAIN users /\ last.id \in DOMAIN profiles


\* C36: whenever the auth context's user is set, an accessToken is in
\* localStorage.
C36_UserHasToken ==
  client.user # NULL => client.accessToken # NULL

\* C37: ProtectedRoute shows its children exactly when loading is false and
\* user is set, the loading placeholder while loading, and the redirect to
\* /login when loading is false and user is null.
C37_ProtectedRoute ==
  /\ client.route = "children" <=> (~client.loading /\ client.user # NULL)
  /\ client.loading => client.route = "Loading..."
  /\ (~client.loading /\ client.user = NULL) => client.route = "Navigate /login"

\* a signed-in user starts a sign-out: user is still set and the placeholder
\* is shown
C37_Witness ==
  /\ client.loading /\ client.user # NULL /\ client.so = "fetch"
  /\ client.route = "Loading..."

\* C38: a session check without a stored accessToken ends at once, without
\* a request, with user null; a session check whose request met a response
\* that is not ok or a network failure ends with both tokens removed and
\* user null.
C38_FailedCheckSignsOut ==
  /\ [][(client.cs = "start" /\ client.accessToken = NULL /\ client'.cs # "start")
          => (client'.cs = "done" /\ client'.user = NULL
              /\ client'.op = "checkSession" /\ client'.outcome = "no_token")]_vars
  /\ []((client.op = "checkSession" /\ client.outcome \in {"not_ok", "throw"})
          => (client.accessToken = NULL /\ client.refreshToken = NULL
              /\ client.user = NULL /\ client.cs = "done"))

\* after a reload with a stored token, the session check met a response
\* that was not ok and left the storage empty
C38_Witness ==
  /\ client.op = "checkSession" /\ client.outcome = "not_ok"
  /\ client.accessToken = NULL /\ client.refreshToken = NULL
  /\ client.user = NULL /\ ~client.loading
  /\ client.route = "Navigate /login"

====
